---- MODULE Spec2Model ----
(***************************************************************************)
(* Dynamic filter system: the filter engine of src/utils/filterUtils.ts    *)
(* (getNestedValue, applyFilterCondition, applyFilters,                    *)
(* validateFilterValue) and the FilterBuilder / FilterCondition / App      *)
(* state that feeds it.                                                    *)
(*                                                                         *)
(* JavaScript values are tagged records [t |-> type, v |-> payload].       *)
(* Strings are sequences of one-character strings, so that toLowerCase,    *)
(* includes, startsWith, endsWith, RegExp and Date parsing are computed.   *)
(* A call that throws yields the value Throw.                              *)
(***************************************************************************)
EXTENDS Integers, Sequences, FiniteSets, TLC

VARIABLES employees, conditionsArg, result, prev, op,
          conditions, errors, activeFilters, nextId, edits, storage

vars == <<employees, conditionsArg, result, prev, op,
          conditions, errors, activeFilters, nextId, edits, storage>>

evalVars == <<employees, conditionsArg, result, prev, op>>

builderVars == <<conditions, errors, activeFilters, nextId, edits, storage>>

-----------------------------------------------------------------------------
(* Bounds *)

MaxRecs == 2

MaxConds == 2

MaxFilters == 2

MaxIds == 3

MaxEdits == 3

-----------------------------------------------------------------------------
(* JavaScript values *)

Null == [t |-> "null"]

Undefined == [t |-> "undefined"]

Str(s) == [t |-> "string", v |-> s]

Num(n) == [t |-> "number", v |-> n]

Bool(b) == [t |-> "boolean", v |-> b]

Arr(a) == [t |-> "array", v |-> a]

Obj(o) == [t |-> "object", v |-> o]

Throw == [t |-> "throw", v |-> "TypeError"]

NaN == [nan |-> TRUE, n |-> 0]

Finite(n) == [nan |-> FALSE, n |-> n]

EmptyObject == [k \in {} |-> Undefined]

IsNullish(x) == x.t \in {"null", "undefined"}

\* !x : the falsy values of JavaScript (NaN never occurs as a value here)
IsFalsy(x) ==
  \/ IsNullish(x)
  \/ x.t = "string" /\ x.v = <<>>
  \/ x.t = "number" /\ x.v = 0
  \/ x.t = "boolean" /\ x.v = FALSE

\* a === b ; arrays and objects are compared by reference, and a record's
\* array or object is never the same reference as a condition's
StrictEquals(a, b) ==
  /\ a.t = b.t
  /\ CASE a.t \in {"null", "undefined"} -> TRUE
       [] a.t \in {"string", "number", "boolean"} -> a.v = b.v
       [] OTHER -> FALSE

\* x[key] for a value that is not null or undefined
GetProp(x, key) ==
  IF x.t = "object" /\ key \in DOMAIN x.v THEN x.v[key] ELSE Undefined

-----------------------------------------------------------------------------
(* Strings *)

Digits == {"0", "1", "2", "3", "4", "5", "6", "7", "8", "9"}

DigitVal(c) ==
  CASE c = "0" -> 0 [] c = "1" -> 1 [] c = "2" -> 2 [] c = "3" -> 3
    [] c = "4" -> 4 [] c = "5" -> 5 [] c = "6" -> 6 [] c = "7" -> 7
    [] c = "8" -> 8 [] c = "9" -> 9

RECURSIVE Decimal(_)
Decimal(s) ==
  IF s = <<>> THEN 0
  ELSE 10 * Decimal(SubSeq(s, 1, Len(s) - 1)) + DigitVal(s[Len(s)])

AllDigits(s) == \A i \in 1..Len(s) : s[i] \in Digits

LowerChar(c) == CASE c = "A" -> "a" [] c = "B" -> "b" [] OTHER -> c

\* String.prototype.toLowerCase
ToLowerCase(s) == [i \in 1..Len(s) |-> LowerChar(s[i])]

\* String.prototype.startsWith
StartsWith(s, p) == Len(p) <= Len(s) /\ SubSeq(s, 1, Len(p)) = p

\* String.prototype.endsWith
EndsWith(s, p) ==
  Len(p) <= Len(s) /\ SubSeq(s, Len(s) - Len(p) + 1, Len(s)) = p

\* String.prototype.includes
Includes(s, p) ==
  \E i \in 0..(Len(s) - Len(p)) : SubSeq(s, i + 1, i + Len(p)) = p

\* Array.prototype.some / Array.prototype.includes on string arrays
ArrayIncludes(a, item) == \E i \in 1..Len(a) : a[i] = item

\* Array.prototype.join(",") of a string array, as ToPrimitive does
RECURSIVE Join(_)
Join(a) ==
  IF a = <<>> THEN <<>>
  ELSE IF Len(a) = 1 THEN a[1]
  ELSE a[1] \o <<",">> \o Join(Tail(a))

\* Number(string): the empty string is 0, a digit string its value, else NaN
StringToNumber(s) ==
  IF s = <<>> THEN Finite(0)
  ELSE IF AllDigits(s) THEN Finite(Decimal(s))
  ELSE NaN

\* ToNumber, as the relational operators apply it to their right operand
ToNumber(x) ==
  CASE x.t = "number" -> Finite(x.v)
    [] x.t = "string" -> StringToNumber(x.v)
    [] x.t = "boolean" -> Finite(IF x.v THEN 1 ELSE 0)
    [] x.t = "null" -> Finite(0)
    [] x.t = "array" -> StringToNumber(Join(x.v))
    [] OTHER -> NaN

\* Date.parse of a date string: dates are written as digit strings (the day
\* number); the empty string and any other text is an Invalid Date
DateParse(s) ==
  IF s # <<>> /\ AllDigits(s) THEN Finite(Decimal(s)) ELSE NaN

\* new Date(x).valueOf()
NewDate(x) ==
  CASE x.t = "string" -> DateParse(x.v)
    [] x.t = "number" -> Finite(x.v)
    [] x.t = "boolean" -> Finite(IF x.v THEN 1 ELSE 0)
    [] x.t = "null" -> Finite(0)
    [] x.t = "array" -> DateParse(Join(x.v))
    [] OTHER -> NaN

\* a >= b, a <= b, a > b, a < b on numbers, false when either side is NaN
Geq(a, b) == ~a.nan /\ ~b.nan /\ a.n >= b.n

Leq(a, b) == ~a.nan /\ ~b.nan /\ a.n <= b.n

Gt(a, b) == ~a.nan /\ ~b.nan /\ a.n > b.n

Lt(a, b) == ~a.nan /\ ~b.nan /\ a.n < b.n

\* new RegExp(pattern, 'i') throws a SyntaxError on an unterminated
\* character class; "]" is not in the alphabet, so any "[" is unterminated
RegExpCompiles(p) == \A i \in 1..Len(p) : p[i] # "["

\* the pattern source new RegExp(value) uses: undefined is the empty pattern,
\* null the text "null" (no other value reaches the regex case: toLowerCase
\* has thrown before)
PatternSource(value) ==
  CASE value.t = "string" -> value.v
    [] value.t = "null" -> <<"n", "u", "l", "l">>
    [] OTHER -> <<>>

\* regex.test(s) for a compiled pattern of literal characters, flag 'i'
RegExpTest(p, s) == Includes(ToLowerCase(s), ToLowerCase(p))

-----------------------------------------------------------------------------
(* Field keys: path.split('.') and field.includes(...) on the keys in use *)

FieldKeys ==
  {"name", "salary", "isActive", "skills", "joinDate", "department",
   "address.city", "address", "lastReview"}

\* path.split('.')
Split(path) ==
  IF path = "address.city" THEN <<"address", "city">> ELSE <<path>>

\* condition.field.includes('Date') || condition.field.includes('Review')
IncludesDateOrReview(field) == field \in {"joinDate", "lastReview"}

\* current?.[key]
OptionalGet(current, key) ==
  IF IsNullish(current) THEN Undefined ELSE GetProp(current, key)

RECURSIVE Reduce(_, _)
Reduce(current, keys) ==
  IF keys = <<>> THEN current
  ELSE Reduce(OptionalGet(current, Head(keys)), Tail(keys))

\* getNestedValue reading the whole path as one key
getNestedValue_NoSplit(obj, path) == OptionalGet(obj, path)

getNestedValue(obj, path) == Reduce(obj, Split(path))

-----------------------------------------------------------------------------
(* applyFilterCondition, branch by branch *)

\* (value as string)?.toLowerCase() || '' : Throw when value is neither
\* nullish nor a string (toLowerCase is not a function)
ValueStr(value) ==
  IF IsNullish(value) THEN Str(<<>>)
  ELSE IF value.t = "string" THEN Str(ToLowerCase(value.v))
  ELSE Throw

\* the string branch comparing against the condition value as typed
StringBranch_ValueNotLowered(fieldValue, operator, value) ==
  LET fieldStr == ToLowerCase(fieldValue.v)
      valueStr == IF IsNullish(value) THEN Str(<<>>)
                  ELSE IF value.t = "string" THEN value
                  ELSE Throw
  IN IF valueStr = Throw THEN Throw
     ELSE CASE operator = "equals" -> Bool(fieldStr = valueStr.v)
            [] operator = "contains" -> Bool(Includes(fieldStr, valueStr.v))
            [] operator = "startsWith" -> Bool(StartsWith(fieldStr, valueStr.v))
            [] operator = "endsWith" -> Bool(EndsWith(fieldStr, valueStr.v))
            [] operator = "notContains" -> Bool(~Includes(fieldStr, valueStr.v))
            [] operator = "regex" ->
                 IF RegExpCompiles(PatternSource(value))
                 THEN Bool(RegExpTest(PatternSource(value), fieldValue.v))
                 ELSE Bool(FALSE)
            [] OTHER -> Bool(TRUE)

\* the string branch with the RegExp constructor outside any try/catch
StringBranch_RegexUncaught(fieldValue, operator, value) ==
  LET fieldStr == ToLowerCase(fieldValue.v)
      valueStr == ValueStr(value)
  IN IF valueStr = Throw THEN Throw
     ELSE CASE operator = "equals" -> Bool(fieldStr = valueStr.v)
            [] operator = "contains" -> Bool(Includes(fieldStr, valueStr.v))
            [] operator = "startsWith" -> Bool(StartsWith(fieldStr, valueStr.v))
            [] operator = "endsWith" -> Bool(EndsWith(fieldStr, valueStr.v))
            [] operator = "notContains" -> Bool(~Includes(fieldStr, valueStr.v))
            [] operator = "regex" ->
                 IF RegExpCompiles(PatternSource(value))
                 THEN Bool(RegExpTest(PatternSource(value), fieldValue.v))
                 ELSE Throw
            [] OTHER -> Bool(TRUE)

StringBranch(fieldValue, operator, value) ==
  LET fieldStr == ToLowerCase(fieldValue.v)
      valueStr == ValueStr(value)
  IN IF valueStr = Throw THEN Throw
     ELSE CASE operator = "equals" -> Bool(fieldStr = valueStr.v)
            [] operator = "contains" -> Bool(Includes(fieldStr, valueStr.v))
            [] operator = "startsWith" -> Bool(StartsWith(fieldStr, valueStr.v))
            [] operator = "endsWith" -> Bool(EndsWith(fieldStr, valueStr.v))
            [] operator = "notContains" -> Bool(~Includes(fieldStr, valueStr.v))
            [] operator = "regex" ->
                 IF RegExpCompiles(PatternSource(value))
                 THEN Bool(RegExpTest(PatternSource(value), fieldValue.v))
                 ELSE Bool(FALSE)
            [] OTHER -> Bool(TRUE)

\* the number branch with a range that excludes its bounds
NumberBranch_ExclusiveBetween(fieldValue, operator, value) ==
  LET v == Finite(fieldValue.v)
  IN IF operator = "between"
     THEN IF IsNullish(value) THEN Throw
          ELSE Bool(/\ Gt(v, ToNumber(GetProp(value, "min")))
                    /\ Lt(v, ToNumber(GetProp(value, "max"))))
     ELSE CASE operator = "equals" -> Bool(StrictEquals(fieldValue, value))
            [] operator = "greaterThan" -> Bool(Gt(v, ToNumber(value)))
            [] operator = "lessThan" -> Bool(Lt(v, ToNumber(value)))
            [] operator = "greaterThanOrEqual" -> Bool(Geq(v, ToNumber(value)))
            [] operator = "lessThanOrEqual" -> Bool(Leq(v, ToNumber(value)))
            [] OTHER -> Bool(TRUE)

NumberBranch(fieldValue, operator, value) ==
  LET v == Finite(fieldValue.v)
  IN IF operator = "between"
     THEN IF IsNullish(value) THEN Throw
          ELSE Bool(/\ Geq(v, ToNumber(GetProp(value, "min")))
                    /\ Leq(v, ToNumber(GetProp(value, "max"))))
     ELSE CASE operator = "equals" -> Bool(StrictEquals(fieldValue, value))
            [] operator = "greaterThan" -> Bool(Gt(v, ToNumber(value)))
            [] operator = "lessThan" -> Bool(Lt(v, ToNumber(value)))
            [] operator = "greaterThanOrEqual" -> Bool(Geq(v, ToNumber(value)))
            [] operator = "lessThanOrEqual" -> Bool(Leq(v, ToNumber(value)))
            [] OTHER -> Bool(TRUE)

\* the boolean branch comparing the field with the truthiness of the value
BooleanBranch_Truthy(fieldValue, value) ==
  Bool(fieldValue.v = ~IsFalsy(value))

BooleanBranch(fieldValue, value) == Bool(StrictEquals(fieldValue, value))

\* valueArray.includes(item): Array.prototype.includes on an array,
\* String.prototype.includes on a string, not a function on anything else
ValueIncludes(value, item) ==
  CASE value.t = "array" -> Bool(ArrayIncludes(value.v, item))
    [] value.t = "string" -> Bool(Includes(value.v, item))
    [] OTHER -> Throw

\* fieldValue.some((item) => valueArray.includes(item)); the callback is not
\* called on an empty array
SomeIncluded(fieldValue, value) ==
  IF fieldValue.v = <<>> THEN Bool(FALSE)
  ELSE IF ValueIncludes(value, fieldValue.v[1]) = Throw THEN Throw
  ELSE Bool(\E i \in 1..Len(fieldValue.v) :
              ValueIncludes(value, fieldValue.v[i]).v)

\* the array branch looking only at the first item of the field
ArrayBranch_FirstItemOnly(fieldValue, operator, value) ==
  LET first == IF fieldValue.v = <<>> THEN fieldValue
               ELSE Arr(<<fieldValue.v[1]>>)
  IN IF IsFalsy(value) \/ (value.t = "array" /\ value.v = <<>>)
     THEN Bool(TRUE)
     ELSE CASE operator = "in" -> SomeIncluded(first, value)
            [] operator = "notIn" ->
                 IF SomeIncluded(first, value) = Throw THEN Throw
                 ELSE Bool(~SomeIncluded(first, value).v)
            [] OTHER -> Bool(TRUE)

ArrayBranch(fieldValue, operator, value) ==
  IF IsFalsy(value) \/ (value.t = "array" /\ value.v = <<>>)
  THEN Bool(TRUE)
  ELSE CASE operator = "in" -> SomeIncluded(fieldValue, value)
         [] operator = "notIn" ->
              IF SomeIncluded(fieldValue, value) = Throw THEN Throw
              ELSE Bool(~SomeIncluded(fieldValue, value).v)
         [] OTHER -> Bool(TRUE)

\* single select operators and the final return true
SingleSelect(fieldValue, operator, value) ==
  IF operator = "is" THEN Bool(StrictEquals(fieldValue, value))
  ELSE IF operator = "isNot" THEN Bool(~StrictEquals(fieldValue, value))
  ELSE Bool(TRUE)

\* the date block; it returns only for operator between
DateBranch(fieldValue, operator, value) ==
  IF operator = "between"
  THEN IF IsNullish(value) THEN Throw
       ELSE Bool(/\ Geq(NewDate(fieldValue), NewDate(GetProp(value, "start")))
                 /\ Leq(NewDate(fieldValue), NewDate(GetProp(value, "end"))))
  ELSE SingleSelect(fieldValue, operator, value)

\* applyFilterCondition without the guard on null and undefined field values
applyFilterCondition_NoAbsentGuard(employee, condition) ==
  LET fieldValue == getNestedValue(employee, condition.field)
      operator == condition.operator
      value == condition.value
  IN IF fieldValue.t = "string"
       THEN StringBranch(fieldValue, operator, value)
     ELSE IF fieldValue.t = "number"
       THEN NumberBranch(fieldValue, operator, value)
     ELSE IF fieldValue.t = "boolean"
       THEN BooleanBranch(fieldValue, value)
     ELSE IF fieldValue.t = "array"
       THEN ArrayBranch(fieldValue, operator, value)
     ELSE IF IncludesDateOrReview(condition.field)
       THEN DateBranch(fieldValue, operator, value)
     ELSE SingleSelect(fieldValue, operator, value)

applyFilterCondition(employee, condition) ==
  LET fieldValue == getNestedValue(employee, condition.field)
      operator == condition.operator
      value == condition.value
  IN IF IsNullish(fieldValue) THEN Bool(FALSE)
     ELSE IF fieldValue.t = "string"
       THEN StringBranch(fieldValue, operator, value)
     ELSE IF fieldValue.t = "number"
       THEN NumberBranch(fieldValue, operator, value)
     ELSE IF fieldValue.t = "boolean"
       THEN BooleanBranch(fieldValue, value)
     ELSE IF fieldValue.t = "array"
       THEN ArrayBranch(fieldValue, operator, value)
     ELSE IF IncludesDateOrReview(condition.field)
       THEN DateBranch(fieldValue, operator, value)
     ELSE SingleSelect(fieldValue, operator, value)

-----------------------------------------------------------------------------
(* applyFilters *)

\* conditions.every(...): stops at the first false, and a throwing callback
\* ends the call; "true", "false" or "throw"
RECURSIVE Every(_, _)
Every(employee, conds) ==
  IF conds = <<>> THEN "true"
  ELSE LET r == applyFilterCondition(employee, Head(conds))
       IN IF r = Throw THEN "throw"
          ELSE IF r.v THEN Every(employee, Tail(conds))
          ELSE "false"

\* employees.filter(...), the records in order
RECURSIVE Filter(_, _)
Filter(emps, conds) ==
  IF emps = <<>> THEN <<>>
  ELSE IF Every(Head(emps), conds) = "true"
    THEN <<Head(emps)>> \o Filter(Tail(emps), conds)
  ELSE Filter(Tail(emps), conds)

\* applyFilters returning nothing when there is no condition
applyFilters_EmptyOnNoConditions(emps, conds) ==
  IF Len(conds) = 0 THEN Arr(<<>>)
  ELSE IF \E i \in 1..Len(emps) : Every(emps[i], conds) = "throw"
    THEN Throw
  ELSE Arr(Filter(emps, conds))

applyFilters(emps, conds) ==
  IF Len(conds) = 0 THEN Arr(emps)
  ELSE IF \E i \in 1..Len(emps) : Every(emps[i], conds) = "throw"
    THEN Throw
  ELSE Arr(Filter(emps, conds))

-----------------------------------------------------------------------------
(* Inputs of the filter engine *)

\* bounded sequences over a set
SeqsUpTo(S, n) == UNION {[1..k -> S] : k \in 0..n}

Emp1 ==
  Obj([name |-> Str(<<"A", "b">>), salary |-> Num(2),
       isActive |-> Bool(TRUE), skills |-> Arr(<< <<"a">>, <<"b">> >>),
       joinDate |-> Str(<<"2">>), department |-> Str(<<"a">>),
       address |-> Obj([city |-> Str(<<"b">>)]),
       lastReview |-> Str(<<"3">>), projects |-> Num(1)])

Emp2 ==
  Obj([name |-> Str(<<"b">>), salary |-> Num(0),
       isActive |-> Bool(FALSE), skills |-> Arr(<<>>),
       joinDate |-> Str(<<"4">>), department |-> Str(<<"b">>),
       address |-> Obj(EmptyObject),
       lastReview |-> Str(<<"1">>), projects |-> Num(3)])

\* a record with absent values: null, missing keys, a null intermediate
Emp3 ==
  Obj([name |-> Null, department |-> Str(<<"a">>), address |-> Null,
       skills |-> Arr(<< <<"a">> >>)])

\* a record whose data disagrees with the schema
Emp4 ==
  Obj([name |-> Num(2), salary |-> Str(<<"2">>), isActive |-> Null,
       joinDate |-> Obj(EmptyObject), lastReview |-> Obj(EmptyObject),
       address |-> Obj([city |-> Str(<<"a">>)])])

\* the record {}
Emp5 == Obj(EmptyObject)

Employees == {Emp1, Emp2, Emp3, Emp4, Emp5}

OperatorTypes ==
  {"equals", "contains", "startsWith", "endsWith", "notContains", "regex",
   "greaterThan", "lessThan", "greaterThanOrEqual", "lessThanOrEqual",
   "between", "is", "isNot", "in", "notIn"}

NumRange(min, max) == Obj([min |-> Num(min), max |-> Num(max)])

DateRange(start, end) == Obj([start |-> Str(start), end |-> Str(end)])

\* members of FilterValue, and undefined for a value that is missing
FilterValues ==
  {Null, Undefined,
   Str(<<>>), Str(<<"a">>), Str(<<"B">>), Str(<<"[">>), Str(<<"2">>),
   Num(0), Num(2), Bool(TRUE), Bool(FALSE),
   Arr(<<>>), Arr(<< <<"a">> >>), Arr(<< <<"b">> >>),
   NumRange(1, 3), NumRange(2, 2), NumRange(3, 1), Obj([min |-> Num(1)]),
   DateRange(<<"1">>, <<"3">>), DateRange(<<"2">>, <<"2">>),
   DateRange(<<"3">>, <<"1">>), Obj([start |-> Str(<<"1">>)]),
   DateRange(<<>>, <<>>)}

Cond(id, field, operator, value) ==
  [id |-> id, field |-> field, operator |-> operator, value |-> value]

AllConditions ==
  {Cond(0, f, o, v) : f \in FieldKeys, o \in OperatorTypes, v \in FilterValues}

\* the conditions that passes of several conditions are built from
PassConditions ==
  {Cond(0, "name", "contains", Str(<<"a">>)),
   Cond(0, "name", "notContains", Str(<<"A">>)),
   Cond(0, "name", "regex", Str(<<"[">>)),
   Cond(0, "name", "equals", Num(2)),
   Cond(0, "salary", "between", NumRange(1, 3)),
   Cond(0, "salary", "lessThan", Num(2)),
   Cond(0, "salary", "between", Null),
   Cond(0, "skills", "in", Arr(<< <<"a">> >>)),
   Cond(0, "isActive", "is", Bool(TRUE)),
   Cond(0, "department", "isNot", Str(<<"a">>)),
   Cond(0, "address.city", "is", Str(<<"b">>)),
   Cond(0, "joinDate", "between", DateRange(<<"1">>, <<"3">>))}

-----------------------------------------------------------------------------
(* The filter engine applied to drawn inputs *)

InitEval ==
  /\ \/ /\ employees \in SeqsUpTo(Employees, 1)
        /\ conditionsArg \in {<<c>> : c \in AllConditions}
     \/ /\ employees \in SeqsUpTo(Employees, MaxRecs)
        /\ conditionsArg \in SeqsUpTo(PassConditions, MaxConds)
  /\ result = Undefined
  /\ prev = Undefined
  /\ op = "init"
  /\ conditions = <<>>
  /\ errors = <<>>
  /\ activeFilters = <<>>
  /\ nextId = 1
  /\ edits = 0
  /\ storage = [j |-> "none"]

\* applyFilterCondition(employee, condition)
Evaluate ==
  /\ op = "init"
  /\ Len(employees) = 1
  /\ Len(conditionsArg) = 1
  /\ result' = applyFilterCondition(employees[1], conditionsArg[1])
  /\ op' = "evaluate"
  /\ UNCHANGED <<employees, conditionsArg, prev, builderVars>>

\* applyFilters filtering the caller's array in place
FilterAll_InPlace ==
  /\ op = "init"
  /\ result' = applyFilters(employees, conditionsArg)
  /\ employees' = IF result' = Throw THEN employees ELSE result'.v
  /\ op' = "filter"
  /\ UNCHANGED <<conditionsArg, prev, builderVars>>

\* applyFilters(employees, conditions)
FilterAll ==
  /\ op = "init"
  /\ result' = applyFilters(employees, conditionsArg)
  /\ op' = "filter"
  /\ UNCHANGED <<employees, conditionsArg, prev, builderVars>>

\* applyFilters(applyFilters(employees, conditions), conditions)
\* a throw of the inner call is the outcome of the whole expression
FilterAgain ==
  /\ op = "filter"
  /\ prev' = result
  /\ IF result = Throw
       THEN UNCHANGED <<employees, result>>
       ELSE /\ employees' = result.v
            /\ result' = applyFilters(result.v, conditionsArg)
  /\ op' = "refilter"
  /\ UNCHANGED <<conditionsArg, builderVars>>

\* applyFilters(employees, [...conditions, c])
FilterExtended ==
  /\ op = "filter"
  /\ Len(conditionsArg) < MaxConds
  /\ \E c \in PassConditions :
       /\ conditionsArg' = Append(conditionsArg, c)
       /\ result' = applyFilters(employees, Append(conditionsArg, c))
  /\ prev' = result
  /\ op' = "extended"
  /\ UNCHANGED <<employees, builderVars>>

\* the orders a condition sequence can be given in
Permuted(conds) ==
  {[i \in 1..Len(conds) |-> conds[f[i]]] :
     f \in {g \in [1..Len(conds) -> 1..Len(conds)] :
              \A i, j \in 1..Len(conds) : g[i] = g[j] => i = j}}

\* applyFilters(employees, a permutation of conditions)
FilterPermuted ==
  /\ op = "filter"
  /\ Len(conditionsArg) >= 2
  /\ \E conds \in Permuted(conditionsArg) :
       /\ conds # conditionsArg
       /\ conditionsArg' = conds
       /\ result' = applyFilters(employees, conds)
  /\ prev' = result
  /\ op' = "permuted"
  /\ UNCHANGED <<employees, builderVars>>

\* getNestedValue(employee, condition.field)
Resolve ==
  /\ op = "init"
  /\ Len(employees) = 1
  /\ Len(conditionsArg) = 1
  /\ result' = getNestedValue(employees[1], conditionsArg[1].field)
  /\ op' = "resolve"
  /\ UNCHANGED <<employees, conditionsArg, prev, builderVars>>

-----------------------------------------------------------------------------
(* validateFilterValue *)

NoError == "null"

\* validateFilterValue taking every falsy value for an empty one
validateFilterValue_FalsyIsEmpty(condition, fieldDef) ==
  LET operator == condition.operator
      value == condition.value
  IN IF IsFalsy(value)
       THEN "Value is required"
     ELSE IF /\ operator = "between"
             /\ fieldDef.type \in {"number", "amount"}
             /\ \/ GetProp(value, "min") = Undefined
                \/ GetProp(value, "max") = Undefined
       THEN "Both min and max values are required"
     ELSE IF /\ operator = "between"
             /\ fieldDef.type \in {"number", "amount"}
             /\ Gt(ToNumber(GetProp(value, "min")),
                   ToNumber(GetProp(value, "max")))
       THEN "Min value cannot be greater than max value"
     ELSE IF /\ operator = "between"
             /\ fieldDef.type = "date"
             /\ \/ IsFalsy(GetProp(value, "start"))
                \/ IsFalsy(GetProp(value, "end"))
       THEN "Both start and end dates are required"
     ELSE IF /\ operator = "between"
             /\ fieldDef.type = "date"
             /\ Gt(NewDate(GetProp(value, "start")),
                   NewDate(GetProp(value, "end")))
       THEN "Start date cannot be after end date"
     ELSE IF /\ operator \in {"in", "notIn"}
             /\ \/ IsFalsy(value)
                \/ value.t = "array" /\ value.v = <<>>
       THEN "At least one option must be selected"
     ELSE NoError

\* validateFilterValue requiring min < max
validateFilterValue_MinBelowMax(condition, fieldDef) ==
  LET operator == condition.operator
      value == condition.value
  IN IF IsNullish(value) \/ value = Str(<<>>)
       THEN "Value is required"
     ELSE IF /\ operator = "between"
             /\ fieldDef.type \in {"number", "amount"}
             /\ \/ GetProp(value, "min") = Undefined
                \/ GetProp(value, "max") = Undefined
       THEN "Both min and max values are required"
     ELSE IF /\ operator = "between"
             /\ fieldDef.type \in {"number", "amount"}
             /\ Geq(ToNumber(GetProp(value, "min")),
                    ToNumber(GetProp(value, "max")))
       THEN "Min value cannot be greater than max value"
     ELSE IF /\ operator = "between"
             /\ fieldDef.type = "date"
             /\ \/ IsFalsy(GetProp(value, "start"))
                \/ IsFalsy(GetProp(value, "end"))
       THEN "Both start and end dates are required"
     ELSE IF /\ operator = "between"
             /\ fieldDef.type = "date"
             /\ Gt(NewDate(GetProp(value, "start")),
                   NewDate(GetProp(value, "end")))
       THEN "Start date cannot be after end date"
     ELSE IF /\ operator \in {"in", "notIn"}
             /\ \/ IsFalsy(value)
                \/ value.t = "array" /\ value.v = <<>>
       THEN "At least one option must be selected"
     ELSE NoError

\* validateFilterValue requiring start before end
validateFilterValue_StartBeforeEnd(condition, fieldDef) ==
  LET operator == condition.operator
      value == condition.value
  IN IF IsNullish(value) \/ value = Str(<<>>)
       THEN "Value is required"
     ELSE IF /\ operator = "between"
             /\ fieldDef.type \in {"number", "amount"}
             /\ \/ GetProp(value, "min") = Undefined
                \/ GetProp(value, "max") = Undefined
       THEN "Both min and max values are required"
     ELSE IF /\ operator = "between"
             /\ fieldDef.type \in {"number", "amount"}
             /\ Gt(ToNumber(GetProp(value, "min")),
                   ToNumber(GetProp(value, "max")))
       THEN "Min value cannot be greater than max value"
     ELSE IF /\ operator = "between"
             /\ fieldDef.type = "date"
             /\ \/ IsFalsy(GetProp(value, "start"))
                \/ IsFalsy(GetProp(value, "end"))
       THEN "Both start and end dates are required"
     ELSE IF /\ operator = "between"
             /\ fieldDef.type = "date"
             /\ Geq(NewDate(GetProp(value, "start")),
                    NewDate(GetProp(value, "end")))
       THEN "Start date cannot be after end date"
     ELSE IF /\ operator \in {"in", "notIn"}
             /\ \/ IsFalsy(value)
                \/ value.t = "array" /\ value.v = <<>>
       THEN "At least one option must be selected"
     ELSE NoError

\* validateFilterValue without the multi-select rule
validateFilterValue_NoOptionsRule(condition, fieldDef) ==
  LET operator == condition.operator
      value == condition.value
  IN IF IsNullish(value) \/ value = Str(<<>>)
       THEN "Value is required"
     ELSE IF /\ operator = "between"
             /\ fieldDef.type \in {"number", "amount"}
             /\ \/ GetProp(value, "min") = Undefined
                \/ GetProp(value, "max") = Undefined
       THEN "Both min and max values are required"
     ELSE IF /\ operator = "between"
             /\ fieldDef.type \in {"number", "amount"}
             /\ Gt(ToNumber(GetProp(value, "min")),
                   ToNumber(GetProp(value, "max")))
       THEN "Min value cannot be greater than max value"
     ELSE IF /\ operator = "between"
             /\ fieldDef.type = "date"
             /\ \/ IsFalsy(GetProp(value, "start"))
                \/ IsFalsy(GetProp(value, "end"))
       THEN "Both start and end dates are required"
     ELSE IF /\ operator = "between"
             /\ fieldDef.type = "date"
             /\ Gt(NewDate(GetProp(value, "start")),
                   NewDate(GetProp(value, "end")))
       THEN "Start date cannot be after end date"
     ELSE NoError

validateFilterValue(condition, fieldDef) ==
  LET operator == condition.operator
      value == condition.value
  IN IF IsNullish(value) \/ value = Str(<<>>)
       THEN "Value is required"
     ELSE IF /\ operator = "between"
             /\ fieldDef.type \in {"number", "amount"}
             /\ \/ GetProp(value, "min") = Undefined
                \/ GetProp(value, "max") = Undefined
       THEN "Both min and max values are required"
     ELSE IF /\ operator = "between"
             /\ fieldDef.type \in {"number", "amount"}
             /\ Gt(ToNumber(GetProp(value, "min")),
                   ToNumber(GetProp(value, "max")))
       THEN "Min value cannot be greater than max value"
     ELSE IF /\ operator = "between"
             /\ fieldDef.type = "date"
             /\ \/ IsFalsy(GetProp(value, "start"))
                \/ IsFalsy(GetProp(value, "end"))
       THEN "Both start and end dates are required"
     ELSE IF /\ operator = "between"
             /\ fieldDef.type = "date"
             /\ Gt(NewDate(GetProp(value, "start")),
                   NewDate(GetProp(value, "end")))
       THEN "Start date cannot be after end date"
     ELSE IF /\ operator \in {"in", "notIn"}
             /\ \/ IsFalsy(value)
                \/ value.t = "array" /\ value.v = <<>>
       THEN "At least one option must be selected"
     ELSE NoError

-----------------------------------------------------------------------------
(* Schema, operator catalog and dataset *)

FIELD_OPERATORS ==
  [text |-> <<"equals", "contains", "startsWith", "endsWith",
              "notContains", "regex">>,
   number |-> <<"equals", "greaterThan", "lessThan", "greaterThanOrEqual",
                "lessThanOrEqual", "between">>,
   date |-> <<"between">>,
   amount |-> <<"between">>,
   \* the keys 'single-select' and 'multi-select'
   singleselect |-> <<"is", "isNot">>,
   multiselect |-> <<"in", "notIn">>,
   boolean |-> <<"is">>]

\* FIELD_OPERATORS[type]
OperatorsOf(type) ==
  CASE type = "single-select" -> FIELD_OPERATORS.singleselect
    [] type = "multi-select" -> FIELD_OPERATORS.multiselect
    [] OTHER -> FIELD_OPERATORS[type]

FieldDef(key, type, options) ==
  [key |-> key, type |-> type, options |-> options]

SelectOptions == << <<"a">>, <<"b">> >>

fieldDefinitions ==
  <<FieldDef("name", "text", <<>>),
    FieldDef("salary", "amount", <<>>),
    FieldDef("projects", "number", <<>>),
    FieldDef("joinDate", "date", <<>>),
    FieldDef("department", "single-select", SelectOptions),
    FieldDef("skills", "multi-select", SelectOptions),
    FieldDef("isActive", "boolean", <<>>)>>

mockEmployees == <<Emp1, Emp2>>

\* fields.find((f) => f.key === key); every key in use is in the schema
FindField(key) ==
  fieldDefinitions[CHOOSE i \in 1..Len(fieldDefinitions) :
                     fieldDefinitions[i].key = key]

-----------------------------------------------------------------------------
(* FilterCondition: the row of one condition *)

\* getDefaultValue(fieldType, operator) of FilterCondition
getDefaultValue(fieldType, operator) ==
  IF operator = "between"
    THEN IF fieldType = "date" THEN DateRange(<<>>, <<>>)
         ELSE NumRange(0, 0)
  ELSE IF fieldType = "boolean" THEN Bool(FALSE)
  ELSE IF fieldType = "multi-select" THEN Arr(<<>>)
  ELSE IF fieldType \in {"number", "amount"} THEN Num(0)
  ELSE Str(<<>>)

\* handleFieldChange keeping the operator of the previous field
handleFieldChange_KeepsOperator(condition, newField) ==
  LET fieldDef == FindField(newField)
  IN [condition EXCEPT !.field = newField,
                       !.value = getDefaultValue(fieldDef.type,
                                                 condition.operator)]

\* the condition handleFieldChange hands to onUpdate
handleFieldChange(condition, newField) ==
  LET fieldDef == FindField(newField)
      defaultOperator == OperatorsOf(fieldDef.type)[1]
  IN [condition EXCEPT !.field = newField,
                       !.operator = defaultOperator,
                       !.value = getDefaultValue(fieldDef.type, defaultOperator)]

\* the condition handleOperatorChange hands to onUpdate
handleOperatorChange(condition, newOperator) ==
  [condition EXCEPT !.operator = newOperator,
                    !.value = getDefaultValue(FindField(condition.field).type,
                                              newOperator)]

\* what the user can type or pick in the value inputs
PickTexts == {<<>>, <<"a">>, <<"[">>}

PickNumbers == {0, 2}

PickDates == {<<"1">>, <<"3">>}

\* a ?? b
Coalesce(a, b) == IF IsNullish(a) THEN b ELSE a

\* a || b
OrElse(a, b) == IF IsFalsy(a) THEN b ELSE a

RemoveItem(a, item) == LET Keep(x) == x # item IN SelectSeq(a, Keep)

\* the values the rendered value input can hand to handleValueChange
ValueInputs(condition) ==
  LET type == FindField(condition.field).type
      value == condition.value
  IN IF type = "date" /\ condition.operator = "between"
       THEN {Obj([start |-> Str(d),
                  end |-> OrElse(OptionalGet(value, "end"), Str(today))]) :
               d \in PickDates, today \in PickDates}
            \cup
            {Obj([start |-> OrElse(OptionalGet(value, "start"), Str(today)),
                  end |-> Str(d)]) :
               d \in PickDates, today \in PickDates}
     ELSE IF type \in {"number", "amount"} /\ condition.operator = "between"
       THEN {Obj([min |-> Num(n),
                  max |-> Coalesce(OptionalGet(value, "max"), Num(0))]) :
               n \in PickNumbers}
            \cup
            {Obj([min |-> Coalesce(OptionalGet(value, "min"), Num(0)),
                  max |-> Num(n)]) :
               n \in PickNumbers}
     ELSE IF type \in {"number", "amount"}
       THEN {Null} \cup {Num(n) : n \in PickNumbers}
     ELSE IF type = "single-select"
       THEN {Str(SelectOptions[i]) : i \in 1..Len(SelectOptions)}
     ELSE IF type = "multi-select"
       THEN LET selected == OrElse(value, Arr(<<>>)).v
            IN {Arr(IF ArrayIncludes(selected, SelectOptions[i])
                    THEN RemoveItem(selected, SelectOptions[i])
                    ELSE Append(selected, SelectOptions[i])) :
                  i \in 1..Len(SelectOptions)}
     ELSE IF type = "boolean"
       THEN {Bool(TRUE), Bool(FALSE)}
     ELSE {Str(s) : s \in PickTexts}

-----------------------------------------------------------------------------
(* FilterBuilder and App *)

\* getDefaultValue(fieldType) of FilterBuilder
getDefaultValueBuilder(fieldType) ==
  CASE fieldType = "boolean" -> Bool(FALSE)
    [] fieldType = "multi-select" -> Arr(<<>>)
    [] fieldType \in {"number", "amount"} -> Num(0)
    [] OTHER -> Str(<<>>)

\* createNewCondition for a schema `fields`
createNewConditionIn(fields, id) ==
  LET firstField == fields[1]
  IN Cond(id, firstField.key, OperatorsOf(firstField.type)[1],
          getDefaultValueBuilder(firstField.type))

createNewCondition(id) == createNewConditionIn(fieldDefinitions, id)

\* a removal that also drops the conditions added after the removed one
WithoutId_DropsLater(conds, id) ==
  LET Keep(c) == c.id < id IN SelectSeq(conds, Keep)

\* conditions.filter((c) => c.id !== id)
WithoutId(conds, id) == LET Keep(c) == c.id # id IN SelectSeq(conds, Keep)

\* a removal that leaves the error list as it is
ErrorsWithoutId_KeepsAll(errs, id) == errs

\* errors.filter((e) => e.filterId !== id)
ErrorsWithoutId(errs, id) ==
  LET Keep(e) == e.filterId # id IN SelectSeq(errs, Keep)

\* conditions.map((c) => c.id === updated.id ? updated : c)
Replaced(conds, updated) ==
  [i \in 1..Len(conds) |->
     IF conds[i].id = updated.id THEN updated ELSE conds[i]]

\* the validationErrors list handleApplyFilters builds
RECURSIVE ValidationErrors(_)
ValidationErrors(conds) ==
  IF conds = <<>> THEN <<>>
  ELSE LET c == Head(conds)
           error == validateFilterValue(c, FindField(c.field))
       IN (IF error # NoError
           THEN <<[filterId |-> c.id, message |-> error]>>
           ELSE <<>>)
          \o ValidationErrors(Tail(conds))

\* App renders applyFilters(mockEmployees, activeFilters); a render that
\* throws unmounts the application
Render(filters) == applyFilters(mockEmployees, filters)

Mounted == result # Throw

-----------------------------------------------------------------------------
(* useFilterPersistence: JSON text in localStorage *)

\* JSON texts, by the value they denote; JSON has no undefined
JNull == [j |-> "null"]

JString(s) == [j |-> "string", v |-> s]

JNumber(n) == [j |-> "number", v |-> n]

JBool(b) == [j |-> "boolean", v |-> b]

JArray(items) == [j |-> "array", v |-> items]

JObject(members) == [j |-> "object", v |-> members]

\* localStorage.getItem of a key that was never set
NoItem == [j |-> "none"]

\* JSON.stringify of a FilterValue: a member whose value is undefined is
\* left out of an object; the items of an array are strings
RECURSIVE StringifyValue(_)
StringifyValue(x) ==
  CASE x.t = "null" -> JNull
    [] x.t = "string" -> JString(x.v)
    [] x.t = "number" -> JNumber(x.v)
    [] x.t = "boolean" -> JBool(x.v)
    [] x.t = "array" -> JArray([i \in 1..Len(x.v) |-> JString(x.v[i])])
    [] x.t = "object" ->
         JObject([k \in {m \in DOMAIN x.v : x.v[m].t # "undefined"} |->
                    StringifyValue(x.v[k])])

\* JSON.stringify of one condition
StringifyCondition(c) ==
  JObject([k \in IF c.value.t = "undefined"
                   THEN {"id", "field", "operator"}
                 ELSE {"id", "field", "operator", "value"} |->
             CASE k = "id" -> JString(c.id)
               [] k = "field" -> JString(c.field)
               [] k = "operator" -> JString(c.operator)
               [] k = "value" -> StringifyValue(c.value)])

\* JSON.stringify(filters)
JSONStringify(filters) ==
  JArray([i \in 1..Len(filters) |-> StringifyCondition(filters[i])])

RECURSIVE ParseValue(_)
ParseValue(text) ==
  CASE text.j = "null" -> Null
    [] text.j = "string" -> Str(text.v)
    [] text.j = "number" -> Num(text.v)
    [] text.j = "boolean" -> Bool(text.v)
    [] text.j = "array" -> Arr([i \in 1..Len(text.v) |-> text.v[i].v])
    [] text.j = "object" ->
         Obj([k \in DOMAIN text.v |-> ParseValue(text.v[k])])

\* one parsed condition; reading a member the text lacks gives undefined
ParseCondition(text) ==
  Cond(text.v["id"].v, text.v["field"].v, text.v["operator"].v,
       IF "value" \in DOMAIN text.v THEN ParseValue(text.v["value"])
       ELSE Undefined)

\* JSON.parse(saved) as FilterCondition[]
JSONParse(text) == [i \in 1..Len(text.v) |-> ParseCondition(text.v[i])]

\* the initial state of useFilterPersistence
LoadFilters(saved) == IF saved = NoItem THEN <<>> ELSE JSONParse(saved)

\* the item after the effects of a render: App hands activeFilters to
\* setPersistFilters and the hook saves them; a render that throws commits
\* nothing and runs no effect
Saved(filters, item) ==
  IF Render(filters) = Throw THEN item ELSE JSONStringify(filters)

-----------------------------------------------------------------------------
(* FilterBuilder and App: state and handlers *)

Init ==
  /\ conditions = <<>>
  /\ errors = <<>>
  /\ activeFilters = <<>>
  /\ nextId = 1
  /\ edits = 0
  /\ employees = mockEmployees
  /\ conditionsArg = <<>>
  /\ result = Render(<<>>)
  /\ prev = Undefined
  /\ op = "mount"
  /\ storage = Saved(<<>>, NoItem)

Frame == UNCHANGED <<employees, conditionsArg, prev>>

handleAddFilter ==
  /\ Mounted
  /\ nextId <= MaxIds
  /\ Len(conditions) < MaxFilters
  /\ conditions' = Append(conditions, createNewCondition(nextId))
  /\ nextId' = nextId + 1
  /\ op' = "add"
  /\ UNCHANGED <<errors, activeFilters, result, edits, storage>>
  /\ Frame

\* onFiltersChange is App's setActiveFilters; the builder's effect on
\* initialFilters then sets conditions to the list it already holds
handleRemoveFilter ==
  /\ Mounted
  /\ \E i \in 1..Len(conditions) :
       LET id == conditions[i].id
           updatedConditions == WithoutId(conditions, id)
       IN /\ conditions' = updatedConditions
          /\ errors' = ErrorsWithoutId(errors, id)
          /\ activeFilters' = updatedConditions
          /\ result' = Render(updatedConditions)
          /\ storage' = Saved(updatedConditions, storage)
  /\ op' = "remove"
  /\ UNCHANGED <<nextId, edits>>
  /\ Frame

\* handleUpdateFilter, called by the row's handleFieldChange
FieldChange ==
  /\ Mounted
  /\ edits < MaxEdits
  /\ \E i \in 1..Len(conditions), k \in 1..Len(fieldDefinitions) :
       /\ fieldDefinitions[k].key # conditions[i].field
       /\ conditions' =
            Replaced(conditions,
                     handleFieldChange(conditions[i], fieldDefinitions[k].key))
  /\ edits' = edits + 1
  /\ op' = "fieldChange"
  /\ UNCHANGED <<errors, activeFilters, result, nextId, storage>>
  /\ Frame

\* handleUpdateFilter, called by the row's handleOperatorChange
OperatorChange ==
  /\ Mounted
  /\ edits < MaxEdits
  /\ \E i \in 1..Len(conditions) :
       LET available == OperatorsOf(FindField(conditions[i].field).type)
       IN \E k \in 1..Len(available) :
            /\ available[k] # conditions[i].operator
            /\ conditions' =
                 Replaced(conditions,
                          handleOperatorChange(conditions[i], available[k]))
  /\ edits' = edits + 1
  /\ op' = "operatorChange"
  /\ UNCHANGED <<errors, activeFilters, result, nextId, storage>>
  /\ Frame

\* handleUpdateFilter publishing the edited list through onFiltersChange
ValueChange_Publishes ==
  /\ Mounted
  /\ edits < MaxEdits
  /\ \E i \in 1..Len(conditions) :
       \E newValue \in ValueInputs(conditions[i]) :
         /\ newValue # conditions[i].value
         /\ conditions' =
              Replaced(conditions, [conditions[i] EXCEPT !.value = newValue])
  /\ activeFilters' = conditions'
  /\ result' = Render(conditions')
  /\ storage' = Saved(conditions', storage)
  /\ edits' = edits + 1
  /\ op' = "valueChange"
  /\ UNCHANGED <<errors, nextId>>
  /\ Frame

\* handleUpdateFilter, called by the row's handleValueChange
ValueChange ==
  /\ Mounted
  /\ edits < MaxEdits
  /\ \E i \in 1..Len(conditions) :
       \E newValue \in ValueInputs(conditions[i]) :
         /\ newValue # conditions[i].value
         /\ conditions' =
              Replaced(conditions, [conditions[i] EXCEPT !.value = newValue])
  /\ edits' = edits + 1
  /\ op' = "valueChange"
  /\ UNCHANGED <<errors, activeFilters, result, nextId, storage>>
  /\ Frame

handleClearAll ==
  /\ Mounted
  /\ Len(conditions) > 0
  /\ conditions' = <<>>
  /\ errors' = <<>>
  /\ activeFilters' = <<>>
  /\ result' = Render(<<>>)
  /\ storage' = Saved(<<>>, storage)
  /\ op' = "clear"
  /\ UNCHANGED <<nextId, edits>>
  /\ Frame

\* handleApplyFilters calling onFiltersChange whatever the validation says
handleApplyFilters_AlwaysPublishes ==
  /\ Mounted
  /\ Len(conditions) > 0
  /\ errors' = ValidationErrors(conditions)
  /\ activeFilters' = conditions
  /\ result' = Render(conditions)
  /\ storage' = Saved(conditions, storage)
  /\ op' = "apply"
  /\ UNCHANGED <<conditions, nextId, edits>>
  /\ Frame

handleApplyFilters ==
  /\ Mounted
  /\ Len(conditions) > 0
  /\ errors' = ValidationErrors(conditions)
  /\ IF ValidationErrors(conditions) = <<>>
       THEN /\ activeFilters' = conditions
            /\ result' = Render(conditions)
            /\ storage' = Saved(conditions, storage)
       ELSE UNCHANGED <<activeFilters, result, storage>>
  /\ op' = "apply"
  /\ UNCHANGED <<conditions, nextId, edits>>
  /\ Frame

\* a page load: useFilterPersistence starts from the saved item, App's
\* activeFilters from the hook's filters, the builder's conditions from
\* initialFilters; ids drawn later are fresh
Reload ==
  /\ LET filters == LoadFilters(storage)
     IN /\ activeFilters' = filters
        /\ conditions' = filters
        /\ result' = Render(filters)
        /\ storage' = Saved(filters, storage)
  /\ errors' = <<>>
  /\ op' = "reload"
  /\ UNCHANGED <<nextId, edits>>
  /\ Frame

Next ==
  \/ handleAddFilter
  \/ handleRemoveFilter
  \/ FieldChange
  \/ OperatorChange
  \/ ValueChange
  \/ handleClearAll
  \/ handleApplyFilters
  \/ Reload

Spec == Init /\ [][Next]_vars

-----------------------------------------------------------------------------
(* The validator applied to drawn inputs *)

FieldTypes ==
  {"text", "number", "date", "amount", "single-select", "multi-select",
   "boolean"}

\* validateFilterValue(condition, fieldDef), for a field of any type
Validate ==
  /\ op = "init"
  /\ Len(employees) = 0
  /\ Len(conditionsArg) = 1
  /\ \E type \in FieldTypes :
       result' =
         [t |-> "validation", type |-> type,
          v |-> validateFilterValue(conditionsArg[1],
                                    FieldDef(conditionsArg[1].field, type,
                                             <<>>))]
  /\ op' = "validate"
  /\ UNCHANGED <<employees, conditionsArg, prev, builderVars>>

SchemaKeys == {fieldDefinitions[k].key : k \in 1..Len(fieldDefinitions)}

\* createNewCondition() in a builder whose schema starts with a field of
\* any type
Create ==
  /\ op = "init"
  /\ Len(employees) = 0
  /\ Len(conditionsArg) = 0
  /\ \E type \in FieldTypes :
       result' =
         [t |-> "condition", type |-> type,
          v |-> createNewConditionIn(<<FieldDef("name", type, <<>>)>>, 0)]
  /\ op' = "create"
  /\ UNCHANGED <<employees, conditionsArg, prev, builderVars>>

\* handleFieldChange of a row, for every field of the schema
ChangeField ==
  /\ op = "init"
  /\ Len(employees) = 0
  /\ Len(conditionsArg) = 1
  /\ \E k \in 1..Len(fieldDefinitions) :
       result' =
         [t |-> "condition", type |-> fieldDefinitions[k].type,
          v |-> handleFieldChange(conditionsArg[1], fieldDefinitions[k].key)]
  /\ op' = "changeField"
  /\ UNCHANGED <<employees, conditionsArg, prev, builderVars>>

\* handleOperatorChange of a row, for every operator the row offers
ChangeOperator ==
  /\ op = "init"
  /\ Len(employees) = 0
  /\ Len(conditionsArg) = 1
  /\ conditionsArg[1].field \in SchemaKeys
  /\ LET type == FindField(conditionsArg[1].field).type
     IN \E k \in 1..Len(OperatorsOf(type)) :
          result' =
            [t |-> "condition", type |-> type,
             v |-> handleOperatorChange(conditionsArg[1],
                                        OperatorsOf(type)[k])]
  /\ op' = "changeOperator"
  /\ UNCHANGED <<employees, conditionsArg, prev, builderVars>>

NextEval ==
  \/ Evaluate
  \/ FilterAll
  \/ FilterAgain
  \/ FilterExtended
  \/ FilterPermuted
  \/ Resolve
  \/ Validate
  \/ Create
  \/ ChangeField
  \/ ChangeOperator

SpecEval == InitEval /\ [][NextEval]_vars

-----------------------------------------------------------------------------
(* Properties of the filter engine *)

\* every condition of conds evaluates true for employee e
KeptBy(e, conds) ==
  \A i \in 1..Len(conds) : applyFilterCondition(e, conds[i]) = Bool(TRUE)

\* the subsequence of emps, in order, of the records kept by conds
Kept(emps, conds) ==
  LET Test(e) == KeptBy(e, conds) IN SelectSeq(emps, Test)

\* the value the single evaluated condition's field resolves to
FieldValueOf(e, c) == getNestedValue(e, c.field)

IsDateString(x) == x.t = "string" /\ ~DateParse(x.v).nan

IsDateRange(x) ==
  /\ x.t = "object"
  /\ DOMAIN x.v = {"start", "end"}
  /\ IsDateString(x.v["start"])
  /\ IsDateString(x.v["end"])

InvalidRegex(c) ==
  c.operator = "regex" /\ c.value.t = "string" /\ ~RegExpCompiles(c.value.v)

\* C1: for a non-empty condition sequence, applyFilters returns exactly the
\* records, in their original order, for which every condition evaluates true
C1_ExactSubsequence ==
  (op = "filter" /\ Len(conditionsArg) > 0)
    => result = Arr(Kept(employees, conditionsArg))

\* C3: applyFilterCondition returns a boolean and never raises, for every
\* record, operator and member of FilterValue
C3_NeverRaises == op = "evaluate" => result.t = "boolean"

\* C4: on a date string under a key containing "Date" or "Review", between
\* {start, end} is true exactly when start <= date <= end, bounds included
C4_DateBetween ==
  (/\ op = "evaluate"
   /\ IncludesDateOrReview(conditionsArg[1].field)
   /\ conditionsArg[1].operator = "between"
   /\ IsDateString(FieldValueOf(employees[1], conditionsArg[1]))
   /\ IsDateRange(conditionsArg[1].value))
    => LET d == DateParse(FieldValueOf(employees[1], conditionsArg[1]).v).n
           s == DateParse(conditionsArg[1].value.v["start"].v).n
           e == DateParse(conditionsArg[1].value.v["end"].v).n
       IN result = Bool(s <= d /\ d <= e)

\* C5: on a single-select field (a string value), is is true exactly when
\* the resolved value strictly equals the condition value, isNot exactly when
\* it differs
C5_SingleSelect ==
  (/\ op = "evaluate"
   /\ conditionsArg[1].field \in {"department", "address.city"}
   /\ FieldValueOf(employees[1], conditionsArg[1]).t = "string"
   /\ conditionsArg[1].value.t = "string")
    => LET same == StrictEquals(FieldValueOf(employees[1], conditionsArg[1]),
                                conditionsArg[1].value)
       IN /\ conditionsArg[1].operator = "is" => result = Bool(same)
          /\ conditionsArg[1].operator = "isNot" => result = Bool(~same)

\* C6: a condition whose field resolves to null or undefined evaluates false
\* for every operator and value, and applyFilters never returns such a record
C6_AbsentFieldExcluded ==
  /\ (op = "evaluate"
      /\ IsNullish(FieldValueOf(employees[1], conditionsArg[1])))
       => result = Bool(FALSE)
  /\ (op = "filter" /\ Len(employees) = 1 /\ Len(conditionsArg) = 1
      /\ IsNullish(FieldValueOf(employees[1], conditionsArg[1])))
       => result = Arr(<<>>)
  /\ (op = "filter" /\ result.t = "array")
       => \A k \in 1..Len(result.v) : \A i \in 1..Len(conditionsArg) :
            ~IsNullish(FieldValueOf(result.v[k], conditionsArg[i]))

C6_Witness ==
  /\ op = "evaluate"
  /\ IsNullish(FieldValueOf(employees[1], conditionsArg[1]))
  /\ conditionsArg[1].operator = "isNot"
  /\ conditionsArg[1].value = Str(<<"a">>)
  /\ result = Bool(FALSE)

\* C7: a regex condition whose pattern does not compile evaluates false on
\* every string field value without raising; a pass of such conditions
\* completes, and no pass returns a record whose field is a string
C7_InvalidRegexIsFalse ==
  /\ (op = "evaluate" /\ InvalidRegex(conditionsArg[1])
      /\ FieldValueOf(employees[1], conditionsArg[1]).t = "string")
       => result = Bool(FALSE)
  /\ (op = "evaluate" /\ InvalidRegex(conditionsArg[1]))
       => result # Throw
  /\ (op = "filter" /\ Len(conditionsArg) > 0
      /\ \A i \in 1..Len(conditionsArg) : InvalidRegex(conditionsArg[i]))
       => result.t = "array"
  /\ (op = "filter" /\ result.t = "array")
       => \A k \in 1..Len(result.v) : \A i \in 1..Len(conditionsArg) :
            InvalidRegex(conditionsArg[i])
              => FieldValueOf(result.v[k], conditionsArg[i]).t # "string"

C7_Witness ==
  /\ op = "filter"
  /\ Len(employees) = 2
  /\ Len(conditionsArg) = 2
  /\ \A i \in 1..2 : InvalidRegex(conditionsArg[i])
  /\ \A k \in 1..2 : FieldValueOf(employees[k], conditionsArg[1]).t = "string"
  /\ result = Arr(<<>>)

\* C8: with no condition applyFilters returns the records it was given, same
\* elements in the same order
C8_IdentityOnNoConditions ==
  (op = "filter" /\ conditionsArg = <<>>) => result = Arr(employees)

C8_Witness ==
  /\ op = "filter"
  /\ conditionsArg = <<>>
  /\ Len(employees) = 2
  /\ employees[1] # employees[2]
  /\ result = Arr(employees)

\* C9: applyFilters(applyFilters(R, C), C) equals applyFilters(R, C) for
\* every R and C
C9_Idempotent ==
  op = "refilter" => (result.t = "array" /\ result = prev)

\* C10: adding a condition never increases the result: the length of
\* applyFilters(R, C plus c) is at most the length of applyFilters(R, C)
C10_Monotone ==
  op = "extended"
    => /\ prev.t = "array"
       /\ result.t = "array"
       /\ Len(result.v) <= Len(prev.v)

\* C11: the result of applyFilters does not depend on the order of the
\* conditions: a permutation of C gives the same outcome as C
C11_OrderIndependent == op = "permuted" => result = prev

IsNumRange(x) ==
  /\ x.t = "object"
  /\ DOMAIN x.v = {"min", "max"}
  /\ x.v["min"].t = "number"
  /\ x.v["max"].t = "number"

\* C12: on a number field value v, between {min, max} is true iff
\* min <= v <= max, and equals, greaterThan, lessThan, greaterThanOrEqual,
\* lessThanOrEqual are true iff v =, >, <, >=, <= the condition value
C12_NumberOperators ==
  (op = "evaluate" /\ FieldValueOf(employees[1], conditionsArg[1]).t = "number")
    => LET v == FieldValueOf(employees[1], conditionsArg[1]).v
           o == conditionsArg[1].operator
           value == conditionsArg[1].value
       IN /\ (o = "between" /\ IsNumRange(value))
               => result = Bool(value.v["min"].v <= v /\ v <= value.v["max"].v)
          /\ (o = "equals" /\ value.t = "number")
               => result = Bool(v = value.v)
          /\ (o = "greaterThan" /\ value.t = "number")
               => result = Bool(v > value.v)
          /\ (o = "lessThan" /\ value.t = "number")
               => result = Bool(v < value.v)
          /\ (o = "greaterThanOrEqual" /\ value.t = "number")
               => result = Bool(v >= value.v)
          /\ (o = "lessThanOrEqual" /\ value.t = "number")
               => result = Bool(v <= value.v)

C12_Witness ==
  /\ op = "evaluate"
  /\ FieldValueOf(employees[1], conditionsArg[1]) = Num(2)
  /\ conditionsArg[1].operator = "between"
  /\ conditionsArg[1].value = NumRange(2, 2)
  /\ result = Bool(TRUE)

\* two characters that differ at most in case
SameLetter(a, b) ==
  \/ a = b
  \/ {a, b} = {"a", "A"}
  \/ {a, b} = {"b", "B"}

\* p occurs in s at offset k, case ignored
OccursAt(s, p, k) ==
  /\ k >= 0
  /\ k + Len(p) <= Len(s)
  /\ \A j \in 1..Len(p) : SameLetter(s[k + j], p[j])

\* C13: on a string field value and a string condition value, equals,
\* contains, startsWith, endsWith and notContains compare without regard to
\* case: whole-string equality, substring and its negation, prefix, suffix
C13_TextOperators ==
  (/\ op = "evaluate"
   /\ FieldValueOf(employees[1], conditionsArg[1]).t = "string"
   /\ conditionsArg[1].value.t = "string")
    => LET s == FieldValueOf(employees[1], conditionsArg[1]).v
           p == conditionsArg[1].value.v
           o == conditionsArg[1].operator
           occurs == \E k \in 0..Len(s) : OccursAt(s, p, k)
       IN /\ o = "equals"
               => result = Bool(Len(s) = Len(p) /\ OccursAt(s, p, 0))
          /\ o = "contains" => result = Bool(occurs)
          /\ o = "notContains" => result = Bool(~occurs)
          /\ o = "startsWith" => result = Bool(OccursAt(s, p, 0))
          /\ o = "endsWith" => result = Bool(OccursAt(s, p, Len(s) - Len(p)))

C13_Witness ==
  /\ op = "evaluate"
  /\ FieldValueOf(employees[1], conditionsArg[1]) = Str(<<"A", "b">>)
  /\ conditionsArg[1].operator = "endsWith"
  /\ conditionsArg[1].value = Str(<<"B">>)
  /\ result = Bool(TRUE)

\* the two string sequences have an element in common
Intersect(a, b) == \E i \in 1..Len(a) : \E j \in 1..Len(b) : a[i] = b[j]

\* C14: on a sequence field value, with a non-empty filter sequence in is
\* true iff the two share an element and notIn iff they share none; with an
\* empty or absent filter value the result is true for every operator
C14_MultiSelect ==
  (op = "evaluate" /\ FieldValueOf(employees[1], conditionsArg[1]).t = "array")
    => LET a == FieldValueOf(employees[1], conditionsArg[1]).v
           o == conditionsArg[1].operator
           value == conditionsArg[1].value
       IN /\ (value.t = "array" /\ value.v # <<>> /\ o = "in")
               => result = Bool(Intersect(a, value.v))
          /\ (value.t = "array" /\ value.v # <<>> /\ o = "notIn")
               => result = Bool(~Intersect(a, value.v))
          /\ (IsNullish(value) \/ value = Arr(<<>>))
               => result = Bool(TRUE)

C14_Witness ==
  /\ op = "evaluate"
  /\ FieldValueOf(employees[1], conditionsArg[1]) = Arr(<< <<"a">>, <<"b">> >>)
  /\ conditionsArg[1].operator = "notIn"
  /\ conditionsArg[1].value = Arr(<< <<"b">> >>)
  /\ result = Bool(FALSE)

\* C15: on a boolean field value the result is true iff the condition value
\* is that same boolean, whatever the operator
C15_BooleanEquality ==
  (op = "evaluate"
   /\ FieldValueOf(employees[1], conditionsArg[1]).t = "boolean")
    => result = Bool(/\ conditionsArg[1].value.t = "boolean"
                     /\ conditionsArg[1].value.v
                          = FieldValueOf(employees[1], conditionsArg[1]).v)

C15_Witness ==
  /\ op = "evaluate"
  /\ FieldValueOf(employees[1], conditionsArg[1]) = Bool(TRUE)
  /\ conditionsArg[1].operator = "isNot"
  /\ conditionsArg[1].value = Bool(TRUE)
  /\ result = Bool(TRUE)

\* the operators each runtime type has a case for
RecognisedBy(type) ==
  CASE type = "string" ->
         {"equals", "contains", "startsWith", "endsWith", "notContains",
          "regex"}
    [] type = "number" ->
         {"between", "equals", "greaterThan", "lessThan",
          "greaterThanOrEqual", "lessThanOrEqual"}
    [] type = "array" -> {"in", "notIn"}
    [] OTHER -> {}

\* C16: on a string, number or sequence field value, an operator that the
\* runtime type has no case for gives true
C16_UnrecognisedOperatorIsTrue ==
  (/\ op = "evaluate"
   /\ FieldValueOf(employees[1], conditionsArg[1]).t
        \in {"string", "number", "array"}
   /\ conditionsArg[1].operator
        \notin RecognisedBy(FieldValueOf(employees[1], conditionsArg[1]).t))
    => result = Bool(TRUE)

\* the own property `key` of a record, undefined when the record lacks it
Own(record, key) ==
  IF key \in DOMAIN record.v THEN record.v[key] ELSE Undefined

\* C17: getNestedValue returns the value at the end of the dot-separated
\* path, and undefined, without raising, when a segment on the way is
\* missing, null or undefined
C17_NestedValue ==
  op = "resolve" =>
    LET record == employees[1]
        path == conditionsArg[1].field
    IN IF path = "address.city"
         THEN IF Own(record, "address").t = "object"
                THEN result = Own(Own(record, "address"), "city")
              ELSE result = Undefined
       ELSE result = Own(record, path)

C17_Witness ==
  /\ op = "resolve"
  /\ conditionsArg[1].field = "address.city"
  /\ employees[1] = Emp3
  /\ result = Undefined

\* C18: a null, undefined or empty-string value is "Value is required" for
\* every field type and operator; false and 0 are not rejected by that
\* rule, and a boolean `is false` condition has no error
C18_ValueRequired ==
  op = "validate" =>
    LET c == conditionsArg[1]
    IN /\ c.value \in {Null, Undefined, Str(<<>>)}
            => result.v = "Value is required"
       /\ c.value \in {Bool(FALSE), Num(0)}
            => result.v # "Value is required"
       /\ (c.value = Bool(FALSE) /\ c.operator = "is"
             /\ result.type = "boolean")
            => result.v = NoError

C18_Witness ==
  /\ op = "validate"
  /\ conditionsArg[1].value = Bool(FALSE)
  /\ conditionsArg[1].operator = "is"
  /\ result.type = "boolean"
  /\ result.v = NoError

\* a value the first rule lets through
IsGiven(value) == value \notin {Null, Undefined, Str(<<>>)}

\* C19: between on a number or amount field is "Both min and max values
\* are required" when min or max is not present, otherwise "Min value
\* cannot be greater than max value" when min > max, and no error when
\* min <= max
C19_NumberRange ==
  (/\ op = "validate"
   /\ conditionsArg[1].operator = "between"
   /\ result.type \in {"number", "amount"}
   /\ IsGiven(conditionsArg[1].value))
    => LET value == conditionsArg[1].value
       IN IF ~IsNumRange(value)
            THEN result.v = "Both min and max values are required"
          ELSE IF value.v["min"].v > value.v["max"].v
            THEN result.v = "Min value cannot be greater than max value"
          ELSE result.v = NoError

C19_Witness ==
  /\ op = "validate"
  /\ conditionsArg[1].operator = "between"
  /\ result.type = "amount"
  /\ conditionsArg[1].value = NumRange(2, 2)
  /\ result.v = NoError

\* the date `key` of a range value is missing or empty
MissingOrEmpty(value, key) ==
  \/ value.t # "object"
  \/ key \notin DOMAIN value.v
  \/ value.v[key] \in {Null, Undefined, Str(<<>>)}

\* C20: between on a date field is "Both start and end dates are required"
\* when start or end is missing or empty, otherwise "Start date cannot be
\* after end date" when start is after end, and no error when start <= end
C20_DateRange ==
  (/\ op = "validate"
   /\ conditionsArg[1].operator = "between"
   /\ result.type = "date"
   /\ IsGiven(conditionsArg[1].value))
    => LET value == conditionsArg[1].value
       IN IF MissingOrEmpty(value, "start") \/ MissingOrEmpty(value, "end")
            THEN result.v = "Both start and end dates are required"
          ELSE IsDateRange(value)
                 => IF DateParse(value.v["start"].v).n
                         > DateParse(value.v["end"].v).n
                      THEN result.v = "Start date cannot be after end date"
                    ELSE result.v = NoError

C20_Witness ==
  /\ op = "validate"
  /\ conditionsArg[1].operator = "between"
  /\ result.type = "date"
  /\ conditionsArg[1].value = DateRange(<<"2">>, <<"2">>)
  /\ result.v = NoError

\* the condition trips none of the validation rules
TripsNoRule(c, type) ==
  /\ IsGiven(c.value)
  /\ (c.operator = "between" /\ type \in {"number", "amount"})
       => (IsNumRange(c.value) /\ c.value.v["min"].v <= c.value.v["max"].v)
  /\ (c.operator = "between" /\ type = "date")
       => /\ IsDateRange(c.value)
          /\ DateParse(c.value.v["start"].v).n
               <= DateParse(c.value.v["end"].v).n
  /\ c.operator \in {"in", "notIn"}
       => (c.value.t = "array" /\ c.value.v # <<>>)

\* C21: for in and notIn an empty value sequence is "At least one option
\* must be selected" and a sequence with an option has no error; a
\* condition that trips none of the rules has no error
C21_OptionsRequired ==
  op = "validate" =>
    LET c == conditionsArg[1]
    IN /\ (c.operator \in {"in", "notIn"} /\ c.value.t = "array")
            => IF c.value.v = <<>>
                 THEN result.v = "At least one option must be selected"
               ELSE result.v = NoError
       /\ TripsNoRule(c, result.type) => result.v = NoError

C21_Witness ==
  /\ op = "validate"
  /\ conditionsArg[1].operator = "notIn"
  /\ conditionsArg[1].value = Arr(<<>>)
  /\ result.type = "multi-select"
  /\ result.v = "At least one option must be selected"

\* the default-value table
DefaultTable(type, operator) ==
  IF operator = "between" /\ type = "date" THEN DateRange(<<>>, <<>>)
  ELSE IF operator = "between" /\ type \in {"number", "amount"}
    THEN NumRange(0, 0)
  ELSE IF type = "boolean" THEN Bool(FALSE)
  ELSE IF type = "multi-select" THEN Arr(<<>>)
  ELSE IF type \in {"number", "amount"} THEN Num(0)
  ELSE Str(<<>>)

\* C22: a condition that is freshly created, or whose field or operator
\* was changed, has the default-table value of its field type and operator,
\* whatever the type of the first field of the schema
C22_DefaultValue ==
  op \in {"create", "changeField", "changeOperator"}
    => result.v.value = DefaultTable(result.type, result.v.operator)

\* the operator table of the specification
OperatorTable(type) ==
  CASE type = "text" ->
         {"equals", "contains", "startsWith", "endsWith", "notContains",
          "regex"}
    [] type \in {"number", "amount"} ->
         {"equals", "greaterThan", "lessThan", "greaterThanOrEqual",
          "lessThanOrEqual", "between"}
    [] type = "date" -> {"between"}
    [] type = "single-select" -> {"is", "isNot"}
    [] type = "multi-select" -> {"in", "notIn"}
    [] type = "boolean" -> {"is"}

\* the operators FIELD_OPERATORS lists for a type
CatalogOf(type) == {OperatorsOf(type)[k] : k \in 1..Len(OperatorsOf(type))}

\* C23: FIELD_OPERATORS maps every field type to exactly the operators of
\* the table (amount to the six operators of number), none to an empty set;
\* stated of the operators a fresh row offers, for a first field of any type
C23_OperatorCatalog ==
  op = "create"
    => /\ CatalogOf(result.type) = OperatorTable(result.type)
       /\ CatalogOf(result.type) # {}

\* C25: a call of applyFilterCondition or applyFilters leaves the records,
\* nested objects and arrays included, the record sequence, the conditions
\* and the condition sequence as they were before the call
C25_InputsUnchanged ==
  [][op' \in {"evaluate", "filter"}
       => (employees' = employees /\ conditionsArg' = conditionsArg)]_vars

C25_Witness ==
  /\ op = "filter"
  /\ employees = <<Emp1, Emp2>>
  /\ Len(conditionsArg) = 2
  /\ result = Arr(<<Emp1>>)

-----------------------------------------------------------------------------
(* Properties of the builder *)

\* C2: every condition of the active filter set, the set applyFilters is run
\* with, passes validateFilterValue against its field definition
C2_ActiveFiltersValid ==
  \A i \in 1..Len(activeFilters) :
    validateFilterValue(activeFilters[i], FindField(activeFilters[i].field))
      = NoError

\* the operator of condition c is one FIELD_OPERATORS lists for the declared
\* type of its field
LegalOperator(c) == c.operator \in CatalogOf(FindField(c.field).type)

\* C24: after any sequence of add, field change, operator change, value
\* change, remove, clear and apply, every condition of the builder and of
\* the active filter set has an operator of its field's declared type
C24_LegalOperators ==
  /\ \A i \in 1..Len(conditions) : LegalOperator(conditions[i])
  /\ \A i \in 1..Len(activeFilters) : LegalOperator(activeFilters[i])

C24_Witness ==
  /\ op = "apply"
  /\ Len(activeFilters) = 1
  /\ activeFilters[1].field = "skills"
  /\ activeFilters[1].operator = "notIn"

\* C26: a reload restores as the active filter sequence exactly the
\* sequence that was active before it (ids, fields, operators, values and
\* order), the empty sequence after Clear All included
C26_ReloadRestores ==
  [][op' = "reload" => activeFilters' = activeFilters]_vars

\* the message validateFilterValue gives for a condition of the builder
MessageOf(c) == validateFilterValue(c, FindField(c.field))

\* the positions of the builder conditions that fail validation
Failing == {i \in 1..Len(conditions) : MessageOf(conditions[i]) # NoError}

\* C27: an Apply with a failing condition leaves the active filter set, the
\* filtered result and the persisted store unchanged and makes the error
\* list exactly one entry per failing condition, with that condition's id
\* and the validator's message; an Apply with no failing condition empties
\* the error list and makes the builder's conditions the active filter set
C27_Apply ==
  [][op' = "apply" =>
       IF Failing # {}
         THEN /\ activeFilters' = activeFilters
              /\ result' = result
              /\ storage' = storage
              /\ Len(errors') = Cardinality(Failing)
              /\ \A i \in Failing :
                   Cardinality({k \in 1..Len(errors') :
                                  errors'[k].filterId = conditions[i].id}) = 1
              /\ \A k \in 1..Len(errors') :
                   \E i \in Failing :
                     errors'[k] = [filterId |-> conditions[i].id,
                                   message |-> MessageOf(conditions[i])]
       ELSE errors' = <<>> /\ activeFilters' = conditions]_vars

C27_Witness ==
  /\ op = "apply"
  /\ Len(conditions) = 2
  /\ MessageOf(conditions[1]) = NoError
  /\ errors = <<[filterId |-> conditions[2].id,
                 message |-> "Value is required"]>>
  /\ activeFilters = <<>>

\* C28: Add Filter and a field, operator or value edit change the builder's
\* draft list only: the active filter set, the filtered result and the
\* persisted store stay as they are
C28_DraftOnly ==
  [][op' \in {"add", "fieldChange", "operatorChange", "valueChange"}
       => /\ conditions' # conditions
          /\ activeFilters' = activeFilters
          /\ result' = result
          /\ storage' = storage
          /\ errors' = errors]_vars

C28_Witness ==
  /\ op = "valueChange"
  /\ Len(activeFilters) = 1
  /\ Len(conditions) = 1
  /\ conditions[1].value # activeFilters[1].value
  /\ result = Render(activeFilters)
  /\ storage = JSONStringify(activeFilters)

\* a sequence without its i-th element
RemoveAt(seq, i) ==
  [k \in 1..(Len(seq) - 1) |-> IF k < i THEN seq[k] ELSE seq[k + 1]]

\* the error entries of other conditions than x, in their order
ErrorsOfOthers(errs, x) ==
  LET Other(e) == e.filterId # x IN SelectSeq(errs, Other)

C30_ErrorsOfConditions ==
  /\ \A k \in 1..Len(errors) :
       \E i \in 1..Len(conditions) : errors[k].filterId = conditions[i].id
  /\ \A k, m \in 1..Len(errors) :
       errors[k].filterId = errors[m].filterId => k = m

C30_Witness ==
  /\ op = "valueChange"
  /\ Len(conditions) = 2
  /\ Len(errors) = 2
  /\ MessageOf(conditions[1]) = NoError

====
